---- MODULE Spec2Model ----
(***************************************************************************)
(* Model of route_planner_python.py: DistanceCalculator (haversine metric  *)
(* with an index-keyed cache) and RoutePlanner (greedy construction,       *)
(* 2-opt, simulated annealing, exact enumeration, plan_route), and of the   *)
(* POST /plan_route handler of main.py with its status codes.              *)
(*                                                                         *)
(* Geo-points are taken on one meridian (longitude 0) at whole degrees of  *)
(* latitude.  For such points delta_lon = 0, so the haversine term is      *)
(* aa = sin^2(dlat/2), c = 2*atan2(sin|dlat/2|, cos(dlat/2)) = |dlat| and  *)
(* calculate returns R * |dlat| * pi/180.  Distances are counted in units  *)
(* of R*pi/180 metres, which makes calculate(a, b) = |a - b|.              *)
(* Python lists are 0-based; a list is a TLA+ sequence read through At.    *)
(***************************************************************************)
EXTENDS Integers, Sequences, FiniteSets, TLC

\* ---------------------------------------------------------------- bounds
MaxCoord == 1       \* latitudes are 0..MaxCoord degrees
MaxWp    == 3       \* waypoint lists of length 0..MaxWp (plus the long ones)
MaxCand  == 2       \* candidate start / end lists of length 0..MaxCand

\* ------------------------------------------------------ program constants
EXACT_LIMIT == 12   \* n <= 12: exact enumeration, else heuristic
SA_BUDGET_FACTOR == 50   \* max_iter = min(max_iterations, n * n * 50)

Inf == 1000000      \* float('inf'): above every distance the model can form
MetresPerDegree == 111195   \* R * pi / 180 with R = 6371000, to the metre
ExpUnderflow == 745 \* math.exp(-x) is 0.0 for x above this

Coords == 0..MaxCoord

\* ------------------------------------------------------------ list helpers
At(s, i) == s[i + 1]
Range0(n) == 0..(n - 1)
SeqsOfLen(S, n) == [1..n -> S]
SeqsUpTo(S, n) == UNION {SeqsOfLen(S, k) : k \in 0..n}
Identity(n) == [k \in 1..n |-> k - 1]
IsPermutation(p, n) ==
    /\ Len(p) = n
    /\ \A v \in Range0(n) : \E k \in 1..n : p[k] = v
    /\ \A k \in 1..n : p[k] \in Range0(n)
Perms(n) == {p \in SeqsOfLen(Range0(n), n) : IsPermutation(p, n)}
Abs(x) == IF x < 0 THEN -x ELSE x
Min2(a, b) == IF a < b THEN a ELSE b
Max2(a, b) == IF a > b THEN a ELSE b

\* ------------------------------------------------------ DistanceCalculator
\* DistanceCalculator.calculate on same-meridian points
calculate(a, b) == Abs(b - a)

\* the dictionary key of get_distance
CacheKey(i, j) == <<Min2(i, j), Max2(i, j)>>

\* RoutePlanner.extract_path
extract_path(wps, indices) == [k \in 1..Len(indices) |-> At(wps, indices[k])]

RECURSIVE SumLegs(_, _)
SumLegs(path, k) ==
    IF k >= Len(path) THEN 0
    ELSE calculate(path[k], path[k + 1]) + SumLegs(path, k + 1)

\* RoutePlanner.calculate_path_distance
calculate_path_distance(path) == IF Len(path) < 2 THEN 0 ELSE SumLegs(path, 1)

\* distance of the waypoint-only path of a visiting order
OrderDistance(wps, order) == calculate_path_distance(extract_path(wps, order))

\* ------------------------------------------------------------------ state
VARIABLES
    op,              \* the method under execution
    pc,              \* its position
    starts,          \* plan_route argument
    waypoints,       \* waypoint list argument
    ends,            \* plan_route argument
    config,          \* AlgorithmConfig
    distance_cache,  \* DistanceCalculator.distance_cache
    call,            \* the last get_distance call: its arguments and return value
    greedy,          \* locals of construct_greedy_path
    sa,              \* locals of simulated_annealing
    opt,             \* locals of two_opt_optimize
    plan,            \* locals of plan_route
    result,          \* <<v>> once the method has returned v, <<>> before
    first_total,     \* the total_distance values of earlier plan_route calls
    request,         \* the RouteRequest of the POST /plan_route handler
    raised,          \* <<e>> while the exception e propagates in the handler
    response         \* <<r>> once the HTTP response r is sent, <<>> before

vars == <<op, pc, starts, waypoints, ends, config, distance_cache, call,
          greedy, sa, opt, plan, result, first_total, request, raised, response>>

\* the variables of the HTTP layer
Http == <<request, raised, response>>

\* AlgorithmConfig.__init__ defaults for the flags; the numeric parameters are
\* arguments.  Temperatures are exact rationals num/den.
Rat(n, d) == [num |-> n, den |-> d]
Config(rate, t0, iters, cache, local) ==
    [cooling_rate |-> rate, initial_temperature |-> t0, max_iterations |-> iters,
     use_cache |-> cache, enable_local_search |-> local]
SmallConfig == Config(Rat(1, 2), Rat(2, 1), 1, TRUE, TRUE)

NoCall == [points |-> <<>>, i |-> 0, j |-> 0, ret |-> 0]
NoGreedy == [path |-> <<>>, visited |-> <<>>, current |-> 0, i |-> 0]
NoSA == [current_path |-> <<>>, best_path |-> <<>>, current_dist |-> 0, best_dist |-> 0,
         temp |-> Rat(0, 1), max_iter |-> 0, k |-> 0]
NoOpt == [path |-> <<>>, best_distance |-> 0, improved |-> FALSE, i |-> 0, j |-> 0]
NoPlan == [si |-> 0, ei |-> 0, internal_order |-> <<>>, best_full_path |-> <<>>,
           best_total_distance |-> Inf, best_start_idx |-> 0, best_end_idx |-> 0]
EmptyCache == [key \in {} |-> 0]
NoRequest == [optimization_target |-> "", amap_key |-> <<>>, origin |-> 0,
              destination |-> 0, waypoints |-> <<>>]

\* DistanceCalculator.__init__ / RoutePlanner.__init__: a fresh planner with no
\* method entered yet (the locals of a method are dropped when it returns)
Fresh ==
    /\ distance_cache = EmptyCache
    /\ call = NoCall
    /\ greedy = NoGreedy
    /\ sa = NoSA
    /\ opt = NoOpt
    /\ plan = NoPlan
    /\ result = <<>>
    /\ first_total = <<>>
    /\ request = NoRequest
    /\ raised = <<>>
    /\ response = <<>>

\* the variables no RoutePlanner method below writes
Others == <<starts, ends, config, distance_cache, call, first_total, Http>>

\* ------------------------------------------------ solve_exact_internal
\* itertools.permutations over a sorted pool: tuples in lexicographic order
RECURSIVE permutations(_), PermsFirstAtLeast(_, _)
PermsFirstAtLeast(S, x) ==
    LET rest == {y \in S : y >= x} IN
    IF rest = {} THEN <<>>
    ELSE LET m == CHOOSE y \in rest : \A z \in rest : y <= z
             tails == permutations(S \ {m})
         IN [k \in 1..Len(tails) |-> <<m>> \o tails[k]] \o PermsFirstAtLeast(S, m + 1)
permutations(S) == IF S = {} THEN << <<>> >> ELSE PermsFirstAtLeast(S, 0)

\* itertools.permutations(range(n)) for the list lengths the exact branch meets
PermutationsOfRange == [n \in 0..MaxWp |-> permutations(Range0(n))]

\* ExactImproves with ties replacing the incumbent
ExactImprovesOrTies(dist, best_dist) == dist <= best_dist

\* the comparison of line 218
ExactImproves(dist, best_dist) == dist < best_dist

\* the for loop of solve_exact_internal from the k-th permutation on
RECURSIVE ExactScan(_, _, _, _, _)
ExactScan(wps, perms, k, best_perm, best_dist) ==
    IF k > Len(perms) THEN best_perm
    ELSE LET dist == OrderDistance(wps, perms[k]) IN
         IF ExactImproves(dist, best_dist)
         THEN ExactScan(wps, perms, k + 1, perms[k], dist)
         ELSE ExactScan(wps, perms, k + 1, best_perm, best_dist)

\* solve_exact_internal for n <= 12: best_perm after the enumeration
ExactBest(wps) ==
    LET n == Len(wps)
        best_perm == Identity(n)
    IN ExactScan(wps, PermutationsOfRange[n], 1, best_perm, OrderDistance(wps, best_perm))

\* RoutePlanner.solve_exact_internal called on its own
solve_exact_internal ==
    /\ op = "solve_exact_internal"
    /\ pc = "solve_exact"
    /\ IF Len(waypoints) > EXACT_LIMIT
       THEN pc' = "greedy_entry" /\ UNCHANGED result
       ELSE pc' = "done" /\ result' = <<ExactBest(waypoints)>>
    /\ UNCHANGED <<op, waypoints, greedy, sa, opt, plan>>
    /\ UNCHANGED Others

\* ------------------------------------------------ construct_greedy_path
\* lines 99-104: the random starting index
GreedyStart ==
    /\ pc = "greedy_entry"
    /\ LET n == Len(waypoints) IN
       IF n = 0
       THEN \* random.randint(0, -1) raises ValueError
            pc' = "raised" /\ UNCHANGED greedy
       ELSE \E current \in Range0(n) :
            /\ greedy' = [path |-> [Identity(n) EXCEPT ![1] = current],
                          visited |-> [k \in 1..n |-> k - 1 = current],
                          current |-> current, i |-> 1]
            /\ pc' = "greedy_loop"
    /\ UNCHANGED <<op, waypoints, sa, opt, plan, result>>
    /\ UNCHANGED Others

\* GreedyCloser with ties moving to the later index
GreedyCloserOrTies(d, best_dist) == d <= best_dist

\* the comparison of line 113
GreedyCloser(d, best_dist) == d < best_dist

\* lines 107-115: the scan over j from index j on; yields next_point
RECURSIVE GreedyScan(_, _, _, _, _, _)
GreedyScan(wps, visited, current, j, best_dist, next_point) ==
    IF j >= Len(wps) THEN next_point
    ELSE IF At(visited, j)
    THEN GreedyScan(wps, visited, current, j + 1, best_dist, next_point)
    ELSE LET d == calculate(At(wps, current), At(wps, j)) IN
         IF GreedyCloser(d, best_dist)
         THEN GreedyScan(wps, visited, current, j + 1, d, j)
         ELSE GreedyScan(wps, visited, current, j + 1, best_dist, next_point)

\* one iteration of the loop of line 106
GreedyStep ==
    /\ pc = "greedy_loop"
    /\ greedy.i < Len(waypoints)
    /\ LET next_point == GreedyScan(waypoints, greedy.visited, greedy.current, 0,
                                    Inf, greedy.current)
       IN greedy' =
            IF next_point # greedy.current
            THEN [path |-> [greedy.path EXCEPT ![greedy.i + 1] = next_point],
                  visited |-> [greedy.visited EXCEPT ![next_point + 1] = TRUE],
                  current |-> next_point, i |-> greedy.i + 1]
            ELSE [greedy EXCEPT !.i = greedy.i + 1]
    /\ UNCHANGED <<op, pc, waypoints, sa, opt, plan, result>>
    /\ UNCHANGED Others

\* line 121, called on its own
GreedyReturn ==
    /\ op = "construct_greedy_path"
    /\ pc = "greedy_loop"
    /\ greedy.i >= Len(waypoints)
    /\ result' = <<greedy.path>>
    /\ greedy' = NoGreedy
    /\ pc' = "done"
    /\ UNCHANGED <<op, waypoints, sa, opt, plan>>
    /\ UNCHANGED Others

\* ------------------------------------------------------- two_opt_swap
\* two_opt_swap writing path[j] to path[i] without the exchange
RECURSIVE two_opt_swap_lossy(_, _, _)
two_opt_swap_lossy(path, i, j) ==
    IF i < j
    THEN two_opt_swap_lossy([path EXCEPT ![i + 1] = At(path, j)], i + 1, j - 1)
    ELSE path

\* RoutePlanner.two_opt_swap: reverses path[i..j] in place
RECURSIVE two_opt_swap(_, _, _)
two_opt_swap(path, i, j) ==
    IF i < j
    THEN two_opt_swap([path EXCEPT ![i + 1] = At(path, j), ![j + 1] = At(path, i)],
                      i + 1, j - 1)
    ELSE path

\* --------------------------------------------------- two_opt_optimize
\* lines 132-137
OptStart ==
    /\ pc = "opt_entry"
    /\ IF ~config.enable_local_search
       THEN /\ opt' = NoOpt
            /\ IF op = "plan_route"
               THEN /\ plan' = [plan EXCEPT !.internal_order = opt.path]
                    /\ pc' = "plan_assemble"
                    /\ UNCHANGED result
               ELSE result' = <<opt.path>> /\ pc' = "done" /\ UNCHANGED plan
       ELSE /\ opt' = [opt EXCEPT !.improved = TRUE,
                                  !.best_distance = OrderDistance(waypoints, opt.path)]
            /\ pc' = "opt_while"
            /\ UNCHANGED <<plan, result>>
    /\ UNCHANGED <<op, waypoints, greedy, sa>>
    /\ UNCHANGED Others

\* line 139-140, improved is set: a new sweep starts at (i, j) = (1, 2)
OptSweep ==
    /\ pc = "opt_while"
    /\ opt.improved
    /\ opt' = [opt EXCEPT !.improved = FALSE, !.i = 1, !.j = 2]
    /\ pc' = "opt_for"
    /\ UNCHANGED <<op, waypoints, greedy, sa, plan, result>>
    /\ UNCHANGED Others

\* OptImproves with equal distances accepted
OptImprovesOrTies(new_distance, best_distance) == new_distance <= best_distance

\* the comparison of line 148
OptImproves(new_distance, best_distance) == new_distance < best_distance

\* the loop headers of lines 141-142: the candidate after (i, j)
OptAdvance(o, n) ==
    IF o.j + 1 < n THEN [o EXCEPT !.j = o.j + 1]
    ELSE [o EXCEPT !.i = o.i + 1, !.j = o.i + 2]

\* lines 144-151 for the candidate (i, j)
OptTry ==
    /\ pc = "opt_for"
    /\ opt.i < Len(opt.path) - 1
    /\ LET temp_path == two_opt_swap(opt.path, opt.i, opt.j)
           new_distance == OrderDistance(waypoints, temp_path)
       IN opt' =
            IF OptImproves(new_distance, opt.best_distance)
            THEN OptAdvance([opt EXCEPT !.path = temp_path,
                                        !.best_distance = new_distance,
                                        !.improved = TRUE], Len(opt.path))
            ELSE OptAdvance(opt, Len(opt.path))
    /\ UNCHANGED <<op, pc, waypoints, greedy, sa, plan, result>>
    /\ UNCHANGED Others

\* range(1, n - 1) is exhausted: back to the while test
OptSweepEnd ==
    /\ pc = "opt_for"
    /\ opt.i >= Len(opt.path) - 1
    /\ pc' = "opt_while"
    /\ UNCHANGED <<op, waypoints, greedy, sa, opt, plan, result>>
    /\ UNCHANGED Others

\* line 153: a sweep without improvement ends the search
OptReturn ==
    /\ pc = "opt_while"
    /\ ~opt.improved
    /\ IF op = "plan_route"
       THEN /\ plan' = [plan EXCEPT !.internal_order = opt.path]
            /\ pc' = "plan_assemble"
            /\ UNCHANGED result
       ELSE result' = <<opt.path>> /\ pc' = "done" /\ UNCHANGED plan
    /\ opt' = NoOpt
    /\ UNCHANGED <<op, waypoints, greedy, sa>>
    /\ UNCHANGED Others

\* ------------------------------------------------ simulated_annealing
\* exact rational temperatures
RatTimes(a, b) == Rat(a.num * b.num, a.den * b.den)
BelowOne(t) == t.num < t.den                       \* temp < 1.0
AboveEps(t) == t.num > 0 /\ (t.den \div t.num) < 1000000000    \* temp > 1e-9

\* line 198
Cool(temp, cooling_rate) == RatTimes(temp, cooling_rate)

\* random.random() < math.exp(-delta / temp) can come out true: the exponential
\* is 1.0 for delta = 0 and positive until delta / temp (delta in metres)
\* underflows it;  and can come out false: random() < 1.0 always holds
MetropolisMayAccept(delta, temp) ==
    delta * MetresPerDegree * temp.den < ExpUnderflow * temp.num
MetropolisMayReject(delta, temp) == delta # 0

\* lines 163-169, entered when construct_greedy_path returns to simulated_annealing
SAInit ==
    /\ op # "construct_greedy_path"
    /\ pc = "greedy_loop"
    /\ greedy.i >= Len(waypoints)
    /\ LET n == Len(waypoints)
           dist == OrderDistance(waypoints, greedy.path)
       IN sa' = [current_path |-> greedy.path, best_path |-> greedy.path,
                 current_dist |-> dist, best_dist |-> dist,
                 temp |-> config.initial_temperature,
                 max_iter |-> Min2(config.max_iterations, n * n * SA_BUDGET_FACTOR),
                 k |-> 0]
    /\ greedy' = NoGreedy
    /\ pc' = "sa_loop"
    /\ UNCHANGED <<op, waypoints, opt, plan, result>>
    /\ UNCHANGED Others

\* DrawnPositions with position 0 among the draws
DrawnPositionsFromZero(n) == 0..(n - 1)

\* lines 173-174: the values random.randint(1, n-1) can return
DrawnPositions(n) == 1..(n - 1)

\* lines 173-174 with n = 1: random.randint(1, 0) raises ValueError
SARaise ==
    /\ pc = "sa_loop"
    /\ sa.k < sa.max_iter
    /\ Len(waypoints) < 2
    /\ pc' = "raised"
    /\ UNCHANGED <<op, waypoints, greedy, sa, opt, plan, result>>
    /\ UNCHANGED Others

\* lines 175-176: the two draws are equal
SANoop ==
    /\ pc = "sa_loop"
    /\ sa.k < sa.max_iter
    /\ \E i, j \in DrawnPositions(Len(waypoints)) :
         i = j /\ sa' = [sa EXCEPT !.k = sa.k + 1]
    /\ UNCHANGED <<op, pc, waypoints, greedy, opt, plan, result>>
    /\ UNCHANGED Others

\* lines 197-200 after a move, then the loop header
SAAfterMove(s) ==
    LET temp == Cool(s.temp, config.cooling_rate) IN
    /\ sa' = [s EXCEPT !.temp = temp, !.k = s.k + 1]
    /\ pc' = IF BelowOne(temp) THEN "sa_exit" ELSE "sa_loop"

\* SAImproves with the incumbent replaced by every accepted order
SAImprovesOrAccepted(new_dist, best_dist) == TRUE

\* the comparison of line 190
SAImproves(new_dist, best_dist) == new_dist < best_dist

\* lines 177-192: the move between the drawn positions is accepted
SAAccept ==
    /\ pc = "sa_loop"
    /\ sa.k < sa.max_iter
    /\ \E di, dj \in DrawnPositions(Len(waypoints)) :
         /\ di # dj
         /\ LET i == Min2(di, dj)
                j == Max2(di, dj)
                moved == two_opt_swap(sa.current_path, i, j)
                new_dist == OrderDistance(waypoints, moved)
                delta == new_dist - sa.current_dist
            IN /\ delta < 0 \/ (AboveEps(sa.temp) /\ MetropolisMayAccept(delta, sa.temp))
               /\ SAAfterMove([sa EXCEPT
                    !.current_path = moved,
                    !.current_dist = new_dist,
                    !.best_dist = IF SAImproves(new_dist, sa.best_dist) THEN new_dist ELSE @,
                    !.best_path = IF SAImproves(new_dist, sa.best_dist) THEN moved ELSE @])
    /\ UNCHANGED <<op, waypoints, greedy, opt, plan, result>>
    /\ UNCHANGED Others

\* lines 177-188, 193-195: the move is rejected and rolled back
SAReject ==
    /\ pc = "sa_loop"
    /\ sa.k < sa.max_iter
    /\ \E di, dj \in DrawnPositions(Len(waypoints)) :
         /\ di # dj
         /\ LET i == Min2(di, dj)
                j == Max2(di, dj)
                old_path == sa.current_path
                moved == two_opt_swap(sa.current_path, i, j)
                new_dist == OrderDistance(waypoints, moved)
                delta == new_dist - sa.current_dist
            IN /\ ~(delta < 0)
               /\ ~AboveEps(sa.temp) \/ MetropolisMayReject(delta, sa.temp)
               /\ SAAfterMove([sa EXCEPT !.current_path = old_path])
    /\ UNCHANGED <<op, waypoints, greedy, opt, plan, result>>
    /\ UNCHANGED Others

\* line 202; in plan_route followed by lines 241-242
SAReturn ==
    /\ pc = "sa_exit" \/ (pc = "sa_loop" /\ sa.k >= sa.max_iter)
    /\ IF op = "plan_route"
       THEN IF config.enable_local_search
            THEN /\ opt' = [NoOpt EXCEPT !.path = sa.best_path]
                 /\ pc' = "opt_entry"
                 /\ UNCHANGED <<plan, result>>
            ELSE /\ plan' = [plan EXCEPT !.internal_order = sa.best_path]
                 /\ pc' = "plan_assemble"
                 /\ UNCHANGED <<opt, result>>
       ELSE result' = <<sa.best_path>> /\ pc' = "done" /\ UNCHANGED <<opt, plan>>
    /\ sa' = NoSA
    /\ UNCHANGED <<op, waypoints, greedy>>
    /\ UNCHANGED Others

\* ---------------------------------------------------------- plan_route
\* PlanImproves with ties replacing the incumbent
PlanImprovesOrTies(total_dist, best_total_distance) == total_dist <= best_total_distance

\* the comparison of line 252
PlanImproves(total_dist, best_total_distance) == total_dist < best_total_distance

\* lines 245-248
FullPath(start, wps, internal_order, end) ==
    <<start>> \o extract_path(wps, internal_order) \o <<end>>

\* the loop headers of lines 234-235: the pair after (si, ei)
PlanAdvance(p) ==
    IF p.ei + 1 < Len(ends) THEN [p EXCEPT !.ei = p.ei + 1]
    ELSE [p EXCEPT !.si = p.si + 1, !.ei = 0]

\* lines 245-256 for the pair (si, ei) and its visiting order
Assembled(p, internal_order) ==
    LET full_path == FullPath(At(starts, p.si), waypoints, internal_order, At(ends, p.ei))
        total_dist == calculate_path_distance(full_path)
        q == [p EXCEPT !.internal_order = internal_order]
    IN IF PlanImproves(total_dist, p.best_total_distance)
       THEN PlanAdvance([q EXCEPT !.best_total_distance = total_dist,
                                  !.best_full_path = full_path,
                                  !.best_start_idx = p.si,
                                  !.best_end_idx = p.ei])
       ELSE PlanAdvance(q)

\* lines 236-256 for the next pair, n <= 12: solve_exact_internal, then assembly
PlanExactPair ==
    /\ op = "plan_route"
    /\ pc = "plan_loop"
    /\ plan.si < Len(starts)
    /\ plan.ei < Len(ends)
    /\ Len(waypoints) <= EXACT_LIMIT
    /\ plan' = Assembled(plan, ExactBest(waypoints))
    /\ UNCHANGED <<op, pc, waypoints, greedy, sa, opt, result>>
    /\ UNCHANGED Others

\* lines 236-240 for the next pair, n > 12: simulated_annealing is entered
PlanHeuristicPair ==
    /\ op = "plan_route"
    /\ pc = "plan_loop"
    /\ plan.si < Len(starts)
    /\ plan.ei < Len(ends)
    /\ Len(waypoints) > EXACT_LIMIT
    /\ pc' = "greedy_entry"
    /\ UNCHANGED <<op, waypoints, greedy, sa, opt, plan, result>>
    /\ UNCHANGED Others

\* lines 245-256 once the heuristic has delivered internal_order
PlanAssemble ==
    /\ op = "plan_route"
    /\ pc = "plan_assemble"
    /\ plan' = Assembled(plan, plan.internal_order)
    /\ pc' = "plan_loop"
    /\ UNCHANGED <<op, waypoints, greedy, sa, opt, result>>
    /\ UNCHANGED Others

\* lines 263-270: both loops are exhausted
PlanReturn ==
    /\ op = "plan_route"
    /\ pc = "plan_loop"
    /\ plan.si >= Len(starts) \/ Len(ends) = 0
    /\ result' = <<[path |-> plan.best_full_path,
                    total_distance |-> plan.best_total_distance,
                    start_index |-> plan.best_start_idx,
                    end_index |-> plan.best_end_idx]>>
    /\ plan' = NoPlan
    /\ pc' = "done"
    /\ UNCHANGED <<op, waypoints, greedy, sa, opt>>
    /\ UNCHANGED Others

\* the caller plans again on the same planner with the waypoint list reordered
PlanAgain ==
    /\ op = "plan_route"
    /\ pc = "done"
    /\ first_total = <<>>
    /\ Len(waypoints) <= MaxWp
    /\ \E p \in Perms(Len(waypoints)) :
         waypoints' = extract_path(waypoints, p)
    /\ first_total' = <<result[1].total_distance>>
    /\ result' = <<>>
    /\ pc' = "plan_loop"
    /\ UNCHANGED <<op, starts, ends, config, distance_cache, call, greedy, sa, opt,
                   plan, Http>>

\* ---------------------------------------------- DistanceCalculator methods
\* DistanceCalculator.get_distance(points, i, j)
get_distance(points, i, j) ==
    /\ op = "get_distance"
    /\ IF ~config.use_cache
       THEN /\ call' = [points |-> points, i |-> i, j |-> j,
                        ret |-> calculate(At(points, i), At(points, j))]
            /\ UNCHANGED distance_cache
       ELSE IF CacheKey(i, j) \in DOMAIN distance_cache
       THEN /\ call' = [points |-> points, i |-> i, j |-> j,
                        ret |-> distance_cache[CacheKey(i, j)]]
            /\ UNCHANGED distance_cache
       ELSE LET dist == calculate(At(points, i), At(points, j)) IN
            /\ distance_cache' =
                 [key \in DOMAIN distance_cache \cup {CacheKey(i, j)} |->
                    IF key = CacheKey(i, j) THEN dist ELSE distance_cache[key]]
            /\ call' = [points |-> points, i |-> i, j |-> j, ret |-> dist]
    /\ UNCHANGED <<op, pc, starts, waypoints, ends, config, greedy, sa, opt, plan,
                   result, first_total, Http>>

\* DistanceCalculator.clear_distance_cache
clear_distance_cache ==
    /\ op = "get_distance"
    /\ distance_cache' = EmptyCache
    /\ UNCHANGED <<op, pc, starts, waypoints, ends, config, call, greedy, sa, opt,
                   plan, result, first_total, Http>>

\* the points lists a caller passes: waypoint lists of 2..MaxWp points
PointLists == UNION {SeqsOfLen(Coords, n) : n \in 2..MaxWp}

GetDistanceCall ==
    \E points \in PointLists : \E i, j \in Range0(Len(points)) :
        get_distance(points, i, j)

InitCache ==
    /\ op = "get_distance"
    /\ pc = "idle"
    /\ starts = <<>> /\ waypoints = <<>> /\ ends = <<>>
    /\ \E cache \in BOOLEAN : config = Config(Rat(1, 2), Rat(2, 1), 1, cache, TRUE)
    /\ Fresh

NextCache == GetDistanceCall \/ clear_distance_cache

\* one DistanceCalculator serving any sequence of get_distance and clear calls
SpecCache == InitCache /\ [][NextCache]_vars

\* ------------------------------------------- main.py: POST /plan_route
\* exceptions carry their class and, for HTTPException, the status code
HTTPException(status_code) == [type |-> "HTTPException", status_code |-> status_code]
ValueError == [type |-> "ValueError", status_code |-> 0]
AttributeError == [type |-> "AttributeError", status_code |-> 0]

\* the classes derived from Exception, the ones `except Exception` catches:
\* fastapi.HTTPException derives from starlette's HTTPException, an Exception
ExceptionClasses == {"HTTPException", "ValueError", "AttributeError"}

\* the targets of lines 137 and 144
DrivingTargets == {"driving_time", "driving_distance"}

\* `not request.amap_key` is false for a non-empty string only (None is <<>>)
Truthy(amap_key) == amap_key # <<>> /\ amap_key[1] # ""

\* a sent response: the status code, the exception it reports, and the body of
\* a RouteResponse
Response(status_code, detail, total_distance, path, waypoints_order) ==
    [status_code |-> status_code, detail |-> detail, total_distance |-> total_distance,
     path |-> path, waypoints_order |-> waypoints_order]

\* lines 137-139
HandlerValidate ==
    /\ pc = "handler_validate"
    /\ IF request.optimization_target \in DrivingTargets /\ ~Truthy(request.amap_key)
       THEN raised' = <<HTTPException(400)>> /\ pc' = "handler_except"
       ELSE pc' = "handler_dispatch" /\ UNCHANGED raised
    /\ UNCHANGED <<op, starts, waypoints, ends, config, distance_cache, call, greedy,
                   sa, opt, plan, result, first_total, request, response>>

\* lines 80-81: the dict keeps the last index of each coordinate
LastIndexOf(wps, c) ==
    CHOOSE i \in Range0(Len(wps)) :
        At(wps, i) = c /\ \A j \in Range0(Len(wps)) : j > i => At(wps, j) # c

\* lines 59-96 for finite coordinates and at most 12 waypoints: plan_route with
\* the one start and the one end, then the response
StraightResponse(req) ==
    LET wps == req.waypoints
        internal_order == ExactBest(wps)
        full_path == FullPath(req.origin, wps, internal_order, req.destination)
        visited == extract_path(wps, internal_order)
    IN Response(200, <<>>, calculate_path_distance(full_path), full_path,
                [k \in 1..Len(wps) |-> LastIndexOf(wps, visited[k])])

\* lines 142-143, get_straight_route_result: math.cos of an infinite latitude
\* raises ValueError in DistanceCalculator.calculate
HandlerStraight ==
    /\ pc = "handler_dispatch"
    /\ request.optimization_target = "straight_distance"
    /\ IF Inf \in {request.origin, request.destination}
       THEN raised' = <<ValueError>> /\ pc' = "handler_except" /\ UNCHANGED response
       ELSE /\ response' = <<StraightResponse(request)>>
            /\ pc' = "responded"
            /\ UNCHANGED raised
    /\ UNCHANGED <<op, starts, waypoints, ends, config, distance_cache, call, greedy,
                   sa, opt, plan, result, first_total, request>>

\* what AmapAPI.get_driving_info can do with the provider's answer: return the
\* route dict, return None (amap_api.py lines 105-114), or raise (a body that is
\* not a JSON object has no .get, line 69)
ProviderOutcomes == {"info", "none", "raises"}

\* lines 144-145, get_driving_route_result
HandlerDriving ==
    /\ pc = "handler_dispatch"
    /\ request.optimization_target \in DrivingTargets
    /\ \E outcome \in ProviderOutcomes :
         IF outcome = "info"
         THEN /\ response' = <<Response(200, <<>>, 0, <<>>, <<>>)>>
              /\ pc' = "responded"
              /\ UNCHANGED raised
         ELSE /\ raised' = <<IF outcome = "none" THEN HTTPException(500)
                                                ELSE AttributeError>>
              /\ pc' = "handler_except"
              /\ UNCHANGED response
    /\ UNCHANGED <<op, starts, waypoints, ends, config, distance_cache, call, greedy,
                   sa, opt, plan, result, first_total, request>>

\* lines 146-147
HandlerInvalid ==
    /\ pc = "handler_dispatch"
    /\ request.optimization_target # "straight_distance"
    /\ request.optimization_target \notin DrivingTargets
    /\ raised' = <<HTTPException(400)>>
    /\ pc' = "handler_except"
    /\ UNCHANGED <<op, starts, waypoints, ends, config, distance_cache, call, greedy,
                   sa, opt, plan, result, first_total, request, response>>

\* lines 148-149: an exception of a class derived from Exception is replaced by
\* HTTPException(500, detail=str(e)); the framework answers with the status code
\* of the HTTPException that leaves the handler
HandlerExcept ==
    /\ pc = "handler_except"
    /\ LET e == raised[1]
           leaving == IF e.type \in ExceptionClasses THEN HTTPException(500) ELSE e
       IN /\ raised' = <<leaving>>
          /\ response' = <<Response(leaving.status_code, <<e>>, 0, <<>>, <<>>)>>
    /\ pc' = "responded"
    /\ UNCHANGED <<op, starts, waypoints, ends, config, distance_cache, call, greedy,
                   sa, opt, plan, result, first_total, request>>

\* ------------------------------------------------------------- inputs
\* waypoint lists of up to MaxWp points on the latitudes 0..MaxCoord
ShortWaypointLists == SeqsUpTo(Coords, MaxWp)

\* a list padded with copies of its first point to EXACT_LIMIT + 1 points
Padded(head) ==
    [k \in 1..(EXACT_LIMIT + 1) |-> IF k <= Len(head) THEN head[k] ELSE head[1]]

\* concrete lists on which the nearest-neighbour order is not 2-opt optimal
SampleWaypointLists == {<<2, 0, 1, 4>>, <<3, 2, 4, 2, 0>>}

\* lists past the exact threshold
LongWaypointLists == {Padded(<<3, 2, 4, 2, 0>>), Padded(<<0, 1>>)}

CandidateLists == SeqsUpTo(Coords, MaxCand)

\* annealing parameters: the default temperature with a small iteration cap,
\* and a temperature that cools below 1.0 inside the cap
AnnealingConfigs ==
    {Config(Rat(1, 2), Rat(t0, 1), iters, TRUE, TRUE) :
        t0 \in {2, 10000}, iters \in {1, 2, 3}}

\* ------------------------------------------------------- specifications
\* solve_exact_internal(waypoints)
InitSolver ==
    /\ op = "solve_exact_internal"
    /\ pc = "solve_exact"
    /\ starts = <<>> /\ ends = <<>>
    /\ waypoints \in ShortWaypointLists \cup LongWaypointLists
    /\ config = Config(Rat(1, 2), Rat(10000, 1), 1, TRUE, TRUE)
    /\ Fresh

NextSolver ==
    \/ solve_exact_internal
    \/ GreedyStart \/ GreedyStep
    \/ SAInit \/ SANoop \/ SAAccept \/ SAReject \/ SAReturn

SpecSolver == InitSolver /\ [][NextSolver]_vars

\* construct_greedy_path(waypoints)
InitGreedy ==
    /\ op = "construct_greedy_path"
    /\ pc = "greedy_entry"
    /\ starts = <<>> /\ ends = <<>>
    /\ waypoints \in ShortWaypointLists \cup SampleWaypointLists \cup LongWaypointLists
    /\ config = SmallConfig
    /\ Fresh

NextGreedy == GreedyStart \/ GreedyStep \/ GreedyReturn

SpecGreedy == InitGreedy /\ [][NextGreedy]_vars

\* two_opt_optimize(waypoints, path) from any permutation
InitTwoOpt ==
    /\ op = "two_opt_optimize"
    /\ pc = "opt_entry"
    /\ starts = <<>> /\ ends = <<>>
    /\ waypoints \in ShortWaypointLists \cup SampleWaypointLists
    /\ \E local \in BOOLEAN : config = Config(Rat(1, 2), Rat(2, 1), 1, TRUE, local)
    /\ distance_cache = EmptyCache /\ call = NoCall /\ greedy = NoGreedy /\ sa = NoSA
    /\ plan = NoPlan /\ result = <<>> /\ first_total = <<>>
    /\ request = NoRequest /\ raised = <<>> /\ response = <<>>
    /\ \E path \in Perms(Len(waypoints)) : opt = [NoOpt EXCEPT !.path = path]

NextTwoOpt == OptStart \/ OptSweep \/ OptTry \/ OptSweepEnd \/ OptReturn

SpecTwoOpt == InitTwoOpt /\ [][NextTwoOpt]_vars

\* the loop of two_opt_optimize runs on: no step of it waits for anything
FairTwoOpt == SpecTwoOpt /\ WF_vars(NextTwoOpt)

\* simulated_annealing(waypoints)
InitSA ==
    /\ op = "simulated_annealing"
    /\ pc = "greedy_entry"
    /\ starts = <<>> /\ ends = <<>>
    /\ waypoints \in ShortWaypointLists \cup SampleWaypointLists
    /\ config \in AnnealingConfigs
    /\ Fresh

NextSA ==
    \/ GreedyStart \/ GreedyStep
    \/ SAInit \/ SARaise \/ SANoop \/ SAAccept \/ SAReject \/ SAReturn

SpecSA == InitSA /\ [][NextSA]_vars

\* plan_route(starts, waypoints, ends)
\* the arguments of a plan_route call past the exact threshold
LongPlanInputs ==
    /\ waypoints \in LongWaypointLists
    /\ starts \in SeqsOfLen(Coords, 1)
    /\ ends \in SeqsOfLen(Coords, 1)
    /\ \E local \in BOOLEAN :
         config = Config(Rat(1, 2), Rat(10000, 1), 1, TRUE, local)

InitPlan ==
    /\ op = "plan_route"
    /\ pc = "plan_loop"
    /\ \/ /\ waypoints \in SeqsUpTo(Coords, MaxWp - 1)
          /\ starts \in CandidateLists
          /\ ends \in CandidateLists
          /\ config = Config(Rat(1, 2), Rat(10000, 1), 1, TRUE, TRUE)
       \/ LongPlanInputs
    /\ Fresh

NextPlan ==
    \/ PlanExactPair \/ PlanHeuristicPair \/ PlanAssemble \/ PlanReturn
    \/ GreedyStart \/ GreedyStep
    \/ SAInit \/ SANoop \/ SAAccept \/ SAReject \/ SAReturn
    \/ OptStart \/ OptSweep \/ OptTry \/ OptSweepEnd \/ OptReturn

SpecPlan == InitPlan /\ [][NextPlan]_vars

\* plan_route, then plan_route again with the waypoint list reordered
SpecReplan == InitPlan /\ [][NextPlan \/ PlanAgain]_vars

\* the heuristic path: simulated_annealing or two_opt_optimize called on their
\* own, or plan_route on more than 12 waypoints (lines 240-242)
InitHeuristic ==
    \/ InitSA
    \/ InitTwoOpt
    \/ op = "plan_route" /\ pc = "plan_loop" /\ LongPlanInputs /\ Fresh

NextHeuristic ==
    \/ PlanHeuristicPair \/ PlanAssemble \/ PlanReturn
    \/ GreedyStart \/ GreedyStep
    \/ SAInit \/ SARaise \/ SANoop \/ SAAccept \/ SAReject \/ SAReturn
    \/ OptStart \/ OptSweep \/ OptTry \/ OptSweepEnd \/ OptReturn

SpecHeuristic == InitHeuristic /\ [][NextHeuristic]_vars

\* the optimization_target and amap_key values of a request
TargetValues == {"straight_distance", "driving_time", "driving_distance", "walking"}
KeyValues == {<<>>, <<"">>, <<"key">>}

\* POST /plan_route with a parsed RouteRequest
InitHandler ==
    /\ op = "POST /plan_route"
    /\ pc = "handler_validate"
    /\ starts = <<>> /\ waypoints = <<>> /\ ends = <<>>
    /\ config = SmallConfig
    /\ distance_cache = EmptyCache /\ call = NoCall /\ greedy = NoGreedy /\ sa = NoSA
    /\ opt = NoOpt /\ plan = NoPlan /\ result = <<>> /\ first_total = <<>>
    /\ \E target \in TargetValues, key \in KeyValues, origin \in Coords \cup {Inf},
          destination \in Coords, wps \in SeqsUpTo(Coords, MaxWp - 1) :
         request = [optimization_target |-> target, amap_key |-> key,
                    origin |-> origin, destination |-> destination, waypoints |-> wps]
    /\ raised = <<>>
    /\ response = <<>>

NextHandler ==
    \/ HandlerValidate \/ HandlerStraight \/ HandlerDriving \/ HandlerInvalid
    \/ HandlerExcept

SpecHandler == InitHandler /\ [][NextHandler]_vars

\* any one method of the planner or of its distance calculator is called
Init ==
    \/ InitCache \/ InitSolver \/ InitGreedy \/ InitTwoOpt \/ InitSA \/ InitPlan
    \/ InitHandler

Next ==
    \/ NextCache \/ NextSolver \/ NextGreedy \/ NextTwoOpt \/ NextSA \/ NextPlan
    \/ PlanAgain
    \/ NextHandler

Spec == Init /\ [][Next]_vars

\* ------------------------------------------------------------- properties
\* ---- plan_route ----
Planned == op = "plan_route" /\ pc = "done"
Returned == result[1]
Candidates == starts # <<>> /\ ends # <<>>

\* C1: for non-empty starts and ends and n <= 12 waypoints, total_distance is the
\* minimum full-path length over every start, end and order of the waypoints:
\* no combination is strictly shorter than the returned one.
PlanGlobalMinimum ==
    (Planned /\ Candidates /\ Len(waypoints) <= EXACT_LIMIT) =>
        \A s \in DOMAIN starts : \A e \in DOMAIN ends :
            \A p \in Perms(Len(waypoints)) :
                Returned.total_distance <=
                    calculate_path_distance(FullPath(starts[s], waypoints, p, ends[e]))

\* C2: for n <= 12, a second plan_route call with the same starts and ends and
\* the waypoint list in another order returns the same total_distance.
PlanOrderInvariant ==
    (Planned /\ first_total # <<>> /\ Len(waypoints) <= EXACT_LIMIT) =>
        Returned.total_distance = first_total[1]

\* C3: with an empty start list or an empty end list plan_route never returns a
\* RouteResult: the call stays unanswered until it is rejected.
PlanRejectsEmpty ==
    (op = "plan_route" /\ ~Candidates) => (result = <<>> /\ pc \in {"plan_loop", "raised"})

CountOf(seq, c) == Cardinality({k \in DOMAIN seq : seq[k] = c})
SameBag(a, b) ==
    /\ Len(a) = Len(b)
    /\ \A k \in DOMAIN a : CountOf(a, a[k]) = CountOf(b, a[k])

\* C4: for non-empty starts and ends and any n (exact branch and heuristic
\* branch), the order handed to the path assembly is a permutation of 0..n-1, and
\* the returned path has n + 2 points: starts[start_index], then every waypoint
\* exactly once, then ends[end_index].
PlanPathShape ==
    /\ (op = "plan_route" /\ pc = "plan_assemble") =>
           IsPermutation(plan.internal_order, Len(waypoints))
    /\ (Planned /\ Candidates) =>
           LET r == Returned
               n == Len(waypoints)
           IN /\ Len(r.path) = n + 2
              /\ r.start_index \in Range0(Len(starts))
              /\ r.end_index \in Range0(Len(ends))
              /\ r.path[1] = At(starts, r.start_index)
              /\ r.path[n + 2] = At(ends, r.end_index)
              /\ SameBag(SubSeq(r.path, 2, n + 1), waypoints)

\* the heuristic branch returned, after 2-opt, another order than the list's own
PlanPathShapeWitness ==
    /\ Planned /\ Candidates
    /\ Len(waypoints) = EXACT_LIMIT + 1
    /\ config.enable_local_search
    /\ SubSeq(Returned.path, 2, Len(waypoints) + 1) # waypoints

PairBefore(s1, e1, s2, e2) == s1 < s2 \/ (s1 = s2 /\ e1 <= e2)

\* C5: with no waypoints and non-empty starts and ends the result is the path
\* [starts[si], ends[ei]] with total_distance = distance(starts[si], ends[ei]),
\* where (si, ei) has minimal direct distance over starts x ends and is the first
\* such pair in the order outer loop over starts, inner loop over ends.
PlanDirectPair ==
    (Planned /\ Candidates /\ waypoints = <<>>) =>
        LET r == Returned
            si == r.start_index
            ei == r.end_index
        IN /\ si \in Range0(Len(starts)) /\ ei \in Range0(Len(ends))
           /\ r.path = <<At(starts, si), At(ends, ei)>>
           /\ r.total_distance = calculate(At(starts, si), At(ends, ei))
           /\ \A s \in Range0(Len(starts)) : \A e \in Range0(Len(ends)) :
                LET d == calculate(At(starts, s), At(ends, e)) IN
                /\ r.total_distance <= d
                /\ d = r.total_distance => PairBefore(si, ei, s, e)

\* two starts, two ends, the chosen pair is not the first one and ties a later one
PlanDirectPairWitness ==
    /\ Planned /\ waypoints = <<>>
    /\ Len(starts) = 2 /\ Len(ends) = 2
    /\ <<Returned.start_index, Returned.end_index>> = <<0, 1>>
    /\ calculate(starts[2], ends[1]) = Returned.total_distance

\* ---- solve_exact_internal ----
LexBefore(p, q) ==
    p = q \/ \E k \in DOMAIN p :
                /\ p[k] < q[k]
                /\ \A m \in 1..(k - 1) : p[m] = q[m]

\* C6: for n <= 12, solve_exact_internal returns a permutation of 0..n-1 whose
\* waypoint-path distance is <= that of every permutation, and it is the
\* lexicographically first permutation of that minimal distance.
ExactLexFirstMinimum ==
    (op = "solve_exact_internal" /\ pc = "done" /\ Len(waypoints) <= EXACT_LIMIT) =>
        LET r == Returned
            n == Len(waypoints)
        IN /\ IsPermutation(r, n)
           /\ \A p \in Perms(n) :
                /\ OrderDistance(waypoints, r) <= OrderDistance(waypoints, p)
                /\ OrderDistance(waypoints, p) = OrderDistance(waypoints, r)
                       => LexBefore(r, p)

\* the identity is not minimal, and the minimum is attained more than once
ExactLexFirstMinimumWitness ==
    /\ op = "solve_exact_internal" /\ pc = "done"
    /\ Len(waypoints) = 3
    /\ Returned # Identity(3)
    /\ \E p \in Perms(3) :
         p # Returned /\ OrderDistance(waypoints, p) = OrderDistance(waypoints, Returned)

\* ---- two_opt_optimize ----
\* q is p with the segment between the positions i and j reversed
IsReversal(p, q, i, j) ==
    /\ Len(q) = Len(p)
    /\ \A k \in Range0(Len(p)) :
         At(q, k) = IF i <= k /\ k <= j THEN At(p, i + j - k) ELSE At(p, k)

Segments(n) == {ij \in (1..(n - 1)) \X (1..(n - 1)) : ij[1] < ij[2]}

\* no reversal between positions 1 <= i < j <= n-1 is strictly shorter than p
LocalOptimum(p) ==
    \A ij \in Segments(Len(p)) : \A q \in Perms(Len(p)) :
        IsReversal(p, q, ij[1], ij[2]) =>
            OrderDistance(waypoints, q) >= OrderDistance(waypoints, p)

InTwoOptLoop(at) == at \in {"opt_while", "opt_for"}

\* the tracked distance is the distance of the current order
TwoOptTracks ==
    (op = "two_opt_optimize" /\ InTwoOptLoop(pc)) =>
        opt.best_distance = OrderDistance(waypoints, opt.path)

\* a step of the loop keeps the order or replaces it by a strictly shorter
\* reversal between positions 1 <= i < j <= n-1; the tracked distance never goes up
TwoOptStep ==
    (op = "two_opt_optimize" /\ InTwoOptLoop(pc) /\ InTwoOptLoop(pc')) =>
        /\ opt'.best_distance <= opt.best_distance
        /\ opt'.path # opt.path =>
             /\ <<opt.i, opt.j>> \in Segments(Len(opt.path))
             /\ IsReversal(opt.path, opt'.path, opt.i, opt.j)
             /\ OrderDistance(waypoints, opt'.path) < OrderDistance(waypoints, opt.path)

TwoOptReturned == op = "two_opt_optimize" /\ pc = "done"

\* C7 as stated: from any permutation, two_opt_optimize only applies strictly
\* improving reversals between positions 1 <= i < j <= n-1, its tracked distance
\* never increases, it terminates, and the order it returns is a local optimum.
TwoOptAlwaysLocalOptimum ==
    /\ []TwoOptTracks
    /\ [][TwoOptStep]_vars
    /\ <>TwoOptReturned
    /\ [](TwoOptReturned => LocalOptimum(Returned))

\* C7 amended: the same, the returned order being a local optimum when
\* enable_local_search is set; with the flag cleared the given order is returned
\* as it is.
TwoOptLocalOptimum ==
    /\ []TwoOptTracks
    /\ [][TwoOptStep]_vars
    /\ <>TwoOptReturned
    /\ [](TwoOptReturned /\ config.enable_local_search => LocalOptimum(Returned))

\* a sweep over four or more waypoints has ended with an improvement applied
TwoOptWitness ==
    /\ op = "two_opt_optimize"
    /\ pc = "opt_while" /\ opt.improved /\ opt.i > 0
    /\ Len(opt.path) >= 4

\* ---- construct_greedy_path ----
\* every position 1..m-1 of path holds a not yet visited index that is nearest
\* to the index before it, the lowest such index
NearestNeighbourPrefix(path, m) ==
    \A k \in 1..(m - 1) :
        LET seen == {At(path, q) : q \in Range0(k)}
            cur == At(path, k - 1)
            nxt == At(path, k)
            d(u) == calculate(At(waypoints, cur), At(waypoints, u))
        IN /\ nxt \in Range0(Len(waypoints)) \ seen
           /\ \A u \in Range0(Len(waypoints)) \ seen :
                /\ d(nxt) <= d(u)
                /\ u < nxt => d(nxt) < d(u)

\* C8: on n >= 1 waypoints construct_greedy_path never raises, each index it
\* appends is the lowest-numbered nearest unvisited one (so an unvisited index
\* is appended at every step: the fallback is not taken), and it returns a
\* permutation of 0..n-1.
GreedyPermutation ==
    (op = "construct_greedy_path" /\ Len(waypoints) >= 1) =>
        /\ pc # "raised"
        /\ pc = "greedy_loop" =>
             /\ NearestNeighbourPrefix(greedy.path, greedy.i)
             /\ greedy.current = At(greedy.path, greedy.i - 1)
             /\ \A v \in Range0(Len(waypoints)) :
                  At(greedy.visited, v) <=>
                      \E q \in Range0(greedy.i) : At(greedy.path, q) = v
        /\ pc = "done" =>
             /\ IsPermutation(Returned, Len(waypoints))
             /\ NearestNeighbourPrefix(Returned, Len(waypoints))

\* three coincident waypoints, started from the middle one
GreedyPermutationWitness ==
    /\ op = "construct_greedy_path" /\ pc = "done"
    /\ Len(waypoints) = 3
    /\ waypoints[1] = waypoints[2] /\ waypoints[2] = waypoints[3]
    /\ Returned = <<1, 0, 2>>

\* ---- simulated_annealing ----
RECURSIVE Pow(_, _)
Pow(b, e) == IF e = 0 THEN 1 ELSE b * Pow(b, e - 1)

RatEq(a, b) == a.num * b.den = b.num * a.den

\* C10: after k executed loop iterations (no-op iterations included) the
\* temperature is initial_temperature * cooling_rate^k, and the loop is left at
\* the first iteration after which it is below 1.0.
CoolsEveryIteration ==
    (op = "simulated_annealing" /\ pc \in {"sa_loop", "sa_exit"}) =>
        /\ RatEq(sa.temp,
                 Rat(config.initial_temperature.num * Pow(config.cooling_rate.num, sa.k),
                     config.initial_temperature.den * Pow(config.cooling_rate.den, sa.k)))
        /\ pc = "sa_exit" <=> (sa.k > 0 /\ BelowOne(sa.temp))

\* the loop of simulated_annealing is at an iteration boundary, or left by break
InAnnealing == pc \in {"sa_loop", "sa_exit"}

\* the tracked distances are those of the tracked orders, both orders are
\* permutations, and the incumbent is no longer than the current order
AnnealingTracks ==
    InAnnealing =>
        /\ IsPermutation(sa.current_path, Len(waypoints))
        /\ IsPermutation(sa.best_path, Len(waypoints))
        /\ sa.current_dist = OrderDistance(waypoints, sa.current_path)
        /\ sa.best_dist = OrderDistance(waypoints, sa.best_path)
        /\ sa.best_dist <= sa.current_dist

\* one iteration keeps the current order (a no-op or a rolled-back move) or
\* reverses one segment of it between positions 1 <= i < j <= n-1, and the
\* incumbent distance does not go up
AnnealingStep ==
    (InAnnealing /\ InAnnealing') =>
        /\ sa'.best_dist <= sa.best_dist
        /\ \/ sa'.current_path = sa.current_path /\ sa'.current_dist = sa.current_dist
           \/ \E ij \in Segments(Len(waypoints)) :
                IsReversal(sa.current_path, sa'.current_path, ij[1], ij[2])

\* construct_greedy_path has filled its path: the initial order of the annealing
GreedyOrderBuilt == pc = "greedy_loop" /\ greedy.i >= Len(waypoints)

AnnealingReturned == op = "simulated_annealing" /\ pc = "done"

\* the path distances of the orders of the annealed waypoint lists
OrderDistances ==
    UNION {{OrderDistance(wps, p) : p \in Perms(Len(wps))} :
              wps \in ShortWaypointLists \cup SampleWaypointLists}

\* C11: at every iteration boundary of simulated_annealing current_path and
\* best_path are permutations of 0..n-1, current_dist and best_dist are their
\* path distances (a rejected move restores the order it started from),
\* best_dist <= current_dist, best_dist never increases, and the returned order
\* is no longer than the initial greedy order.
AnnealingKeepsIncumbent ==
    /\ []AnnealingTracks
    /\ [][AnnealingStep]_vars
    /\ \A d \in OrderDistances :
         []((GreedyOrderBuilt /\ OrderDistance(waypoints, greedy.path) = d) =>
                [](AnnealingReturned =>
                       /\ IsPermutation(Returned, Len(waypoints))
                       /\ OrderDistance(waypoints, Returned) <= d))

\* a worse order has been accepted after two or more iterations: the current
\* order is longer than the incumbent
AnnealingKeepsIncumbentWitness ==
    /\ op = "simulated_annealing" /\ InAnnealing
    /\ sa.k >= 2
    /\ sa.current_path # sa.best_path
    /\ sa.current_dist > sa.best_dist

\* ---- position 0 of the visiting order ----
\* the visiting orders held at this point of a heuristic run: the path of
\* construct_greedy_path, the two orders of simulated_annealing, the path of
\* two_opt_optimize, the order handed back to plan_route, the returned order
HeldOrders ==
    IF pc = "greedy_loop" THEN {greedy.path}
    ELSE IF InAnnealing THEN {sa.current_path, sa.best_path}
    ELSE IF pc \in {"opt_entry", "opt_while", "opt_for"} THEN {opt.path}
    ELSE IF pc = "plan_assemble" THEN {plan.internal_order}
    ELSE IF pc = "done" /\ op \in {"construct_greedy_path", "simulated_annealing",
                                   "two_opt_optimize", "solve_exact_internal"}
         THEN {Returned}
    ELSE {}

\* the indices those orders begin with
FirstIndices == {At(o, 0) : o \in {h \in HeldOrders : h # <<>>}}

\* all the orders held begin with the same index
OneFirstIndex == Cardinality(FirstIndices) <= 1

\* a step from one point of a heuristic run to the next keeps that index
FirstIndexKept == (FirstIndices # {} /\ FirstIndices' # {}) => FirstIndices' = FirstIndices

\* construct_greedy_path has just drawn its starting index c
GreedyDrew(c) == pc = "greedy_loop" /\ greedy.i = 1 /\ greedy.current = c

\* C12: no move of simulated_annealing or of two_opt_optimize changes position
\* 0 of the visiting order, and the order simulated_annealing returns, also after
\* a following two_opt_optimize, begins with the starting index that
\* construct_greedy_path drew.
FirstPositionFixed ==
    /\ []OneFirstIndex
    /\ [][FirstIndexKept]_vars
    /\ \A c \in Range0(EXACT_LIMIT + 1) :
         [](GreedyDrew(c) => [](FirstIndices \subseteq {c}))

\* in plan_route, a sweep of the two_opt_optimize that follows simulated_annealing
\* has applied a reversal to an order that begins with an index other than 0
FirstPositionFixedWitness ==
    /\ op = "plan_route"
    /\ pc = "opt_while" /\ opt.improved /\ opt.i > 0
    /\ At(opt.path, 0) # 0

\* ---- POST /plan_route ----
Responded == op = "POST /plan_route" /\ pc = "responded"

\* the request names no known optimization target, or a driving target
\* without an amap_key
InvalidRequest ==
    \/ request.optimization_target \notin DrivingTargets \cup {"straight_distance"}
    \/ request.optimization_target \in DrivingTargets /\ ~Truthy(request.amap_key)

\* C13: an invalid request is answered with status 400, and status 500 is
\* answered only when the computation or the directions provider failed.
InvalidRequestGets400 ==
    Responded =>
        /\ InvalidRequest => response[1].status_code = 400
        /\ response[1].status_code = 500 =>
              response[1].detail \in {<<ValueError>>, <<AttributeError>>,
                                      <<HTTPException(500)>>}

\* ---- DistanceCalculator ----
\* C9: with caching enabled, every get_distance(points, i, j) call returns
\* calculate(points[i], points[j]) for the points list passed to that call,
\* whatever calls (with whatever points lists) came before it.
CacheNeverStale ==
    (config.use_cache /\ call # NoCall) =>
        call.ret = calculate(At(call.points, call.i), At(call.points, call.j))

====
